---- MODULE Spec2Model ----
(***************************************************************************)
(* Model of src/main.py: the moving-average crossover back-test.           *)
(*                                                                         *)
(*   moving_mean   trailing mean by cumulative-sum difference              *)
(*   mm_actions    the buy/sell scan over (price, moving mean) pairs       *)
(*   compute       history -> prices -> trades -> statistics tuple         *)
(*   main          the batch loop writing one worksheet row per stock      *)
(*                                                                         *)
(* Prices are integers (a price in its smallest unit).  A floating-point   *)
(* quotient is kept as an exact fraction <<n, d>> in lowest terms with     *)
(* d > 0; the three non-finite IEEE results of numpy's division are        *)
(* <<1, 0>> (inf), <<-1, 0>> (-inf) and <<0, 0>> (nan).  Rounding of       *)
(* double precision is not modelled.                                       *)
(***************************************************************************)
EXTENDS Integers, Sequences, FiniteSets, TLC

VARIABLES
    pc,          \* position of the running function
    stock,       \* compute: the instrument (stock_id and the API's answer)
    avg_window,  \* compute: the avg_window argument
    prices,      \* compute: the local `prices` (close prices, date order)
    mm_prices,   \* mm_actions: its `prices` argument
    mm,          \* mm_actions: its `mm` argument / compute's local `mm`
    actions,     \* the list mm_actions returned
    ret,         \* what compute returned, or the exception it raised
    ids,         \* main: the instruments named by --id, in order
    j,           \* main: index of the instrument being processed (1-based)
    sheet,       \* main: worksheet row |-> formats of the cells written
    log,         \* main: the logging calls made, in order
    closed,      \* main: writer.close() has run
    exc          \* main: the exception propagating out of main, or "none"

vars == <<pc, stock, avg_window, prices, mm_prices, mm, actions, ret,
          ids, j, sheet, log, closed, exc>>

---------------------------------------------------------------------------
(* Bounds of the model *)

MaxLen == 5
MaxWindow == 3
MaxTrades == 2
MaxIds == 3

---------------------------------------------------------------------------
(* Arithmetic: exact fractions and the non-finite results of division *)

Abs(x) == IF x < 0 THEN -x ELSE x

Sign(x) == IF x > 0 THEN 1 ELSE IF x < 0 THEN -1 ELSE 0

RECURSIVE GCD(_, _)
GCD(a, b) == IF b = 0 THEN a ELSE GCD(b, a % b)

\* n / d, d # 0, in lowest terms with a positive denominator
Frac(n, d) ==
    LET g == GCD(Abs(n), Abs(d))
        s == Sign(d)
    IN  <<(s * n) \div g, (s * d) \div g>>

NaN == <<0, 0>>
Zero == <<0, 1>>

IsFinite(q) == q[2] # 0
IsNaN(q) == q = NaN

\* numpy's true division of two numbers: x/0 is inf, -inf or nan (with a
\* RuntimeWarning), never an exception
TrueDivide(n, d) == IF d = 0 THEN <<Sign(n), 0>> ELSE Frac(n, d)

\* a < b on fractions, IEEE order: every comparison with nan is false
FracLess(a, b) ==
    IF IsNaN(a) \/ IsNaN(b) THEN FALSE
    ELSE IF ~IsFinite(a) /\ ~IsFinite(b) THEN a[1] < b[1]
    ELSE IF ~IsFinite(a) THEN a[1] < 0
    ELSE IF ~IsFinite(b) THEN b[1] > 0
    ELSE a[1] * b[2] < b[1] * a[2]

---------------------------------------------------------------------------
(* moving_mean (src/main.py lines 26-28) *)

\* running sums that leave the current element out: c[i] = array[1] + ... +
\* array[i-1]
RECURSIVE cumsum_exclusive(_)
cumsum_exclusive(array) ==
    IF Len(array) = 0 THEN <<>>
    ELSE LET head == cumsum_exclusive(SubSeq(array, 1, Len(array) - 1))
             last == IF Len(head) = 0 THEN 0
                     ELSE head[Len(head)] + array[Len(array) - 1]
         IN  Append(head, last)

\* np.cumsum: the running sums c[i] = array[1] + ... + array[i]
RECURSIVE cumsum(_)
cumsum(array) ==
    IF Len(array) = 0 THEN <<>>
    ELSE LET head == cumsum(SubSeq(array, 1, Len(array) - 1))
             last == IF Len(head) = 0 THEN 0 ELSE head[Len(head)]
         IN  Append(head, last + array[Len(array)])

Min(a, b) == IF a < b THEN a ELSE b
Max(a, b) == IF a > b THEN a ELSE b

\* Python's s[start:] for start >= 0 (0-based start, clipped to the length)
SliceFrom(s, start) == SubSeq(s, Min(start, Len(s)) + 1, Len(s))

\* Python's s[:-n] for n > 0: all but the last n elements
SliceDropLast(s, n) == SubSeq(s, 1, Max(Len(s) - n, 0))

\* the two slices moving_mean subtracts: cumsum[window_size:] and
\* cumsum[:-window_size]
UpperSlice(c, window_size) == SliceFrom(c, window_size)
LowerSlice(c, window_size) == SliceDropLast(c, window_size)

\* a moving mean that also yields the first full window, by taking the running
\* sums from a leading 0
moving_mean_all_windows(array, window_size) ==
    LET c  == <<0>> \o cumsum(array)
        hi == UpperSlice(c, window_size)
        lo == LowerSlice(c, window_size)
    IN  [k \in 1..Len(hi) |-> Frac(hi[k] - lo[k], window_size)]

\* 1.0 / window_size * (cumsum[window_size:] - cumsum[:-window_size])
moving_mean(array, window_size) ==
    LET c  == cumsum(array)
        hi == UpperSlice(c, window_size)
        lo == LowerSlice(c, window_size)
    IN  [k \in 1..Len(hi) |-> Frac(hi[k] - lo[k], window_size)]

---------------------------------------------------------------------------
(* mm_actions (src/main.py lines 31-42) *)

\* last_buy is <<>> for None and <<p>> for the price p
None == <<>>

\* p >= m and p < m for a price p (an integer) and a moving mean m
PriceGE(p, m) == ~FracLess(<<p, 1>>, m) /\ ~IsNaN(m)
PriceLT(p, m) == FracLess(<<p, 1>>, m)

\* a buy condition that takes a strict crossing only (p > m)
BuyCondStrict(p, m, last_buy) == FracLess(m, <<p, 1>>) /\ last_buy = None

\* line 37: if p >= m and last_buy is None
BuyCond(p, m, last_buy) == PriceGE(p, m) /\ last_buy = None

\* line 39: elif p < m and last_buy is not None
SellCond(p, m, last_buy) == PriceLT(p, m) /\ last_buy # None

\* a scan that takes the latest price at or above the mean as the buy price,
\* whether or not a position is open
RECURSIVE mm_scan_rebuy(_, _, _, _, _)
mm_scan_rebuy(ps, ms, k, last_buy, result) ==
    IF k > Min(Len(ps), Len(ms)) THEN result
    ELSE IF PriceGE(ps[k], ms[k])
         THEN mm_scan_rebuy(ps, ms, k + 1, <<ps[k]>>, result)
    ELSE IF last_buy # None
         THEN mm_scan_rebuy(ps, ms, k + 1, None,
                            Append(result, <<last_buy[1], ps[k]>>))
    ELSE mm_scan_rebuy(ps, ms, k + 1, last_buy, result)

\* the for loop over zip(prices, mm), from pair k on
RECURSIVE mm_scan(_, _, _, _, _)
mm_scan(ps, ms, k, last_buy, result) ==
    IF k > Min(Len(ps), Len(ms)) THEN result
    ELSE IF BuyCond(ps[k], ms[k], last_buy)
         THEN mm_scan(ps, ms, k + 1, <<ps[k]>>, result)
    ELSE IF SellCond(ps[k], ms[k], last_buy)
         THEN mm_scan(ps, ms, k + 1, None,
                      Append(result, <<last_buy[1], ps[k]>>))
    ELSE mm_scan(ps, ms, k + 1, last_buy, result)

\* the outcome of mm_actions: the trade list, or the failed assert of line 32
mm_actions(ps, ms) ==
    IF Len(ps) # Len(ms)
    THEN [raised |-> "AssertionError", value |-> <<>>]
    ELSE [raised |-> "none", value |-> mm_scan(ps, ms, 1, None, <<>>)]

---------------------------------------------------------------------------
(* compute (src/main.py lines 45-79) *)

\* the default of compute's avg_window parameter, the value main runs with
AvgWindow == 20

RECURSIVE SumSeq(_)
SumSeq(s) == IF Len(s) = 0 THEN 0 ELSE s[1] + SumSeq(Tail(s))

\* actions[:, c] of the two-column array, c = 0 (buy price) or 1 (sell price)
Column(a, c) == [k \in 1..Len(a) |-> a[k][c + 1]]

\* line 63: (actions[:, 1] - actions[:, 0]) / actions[:, 0], element by element
win_ratios(a) ==
    [k \in 1..Len(a) |-> TrueDivide(Column(a, 1)[k] - Column(a, 0)[k], Column(a, 0)[k])]

\* the sum of two fractions (nan if either is not finite)
FracAdd(a, b) ==
    IF ~IsFinite(a) \/ ~IsFinite(b) THEN NaN
    ELSE Frac(a[1] * b[2] + b[1] * a[2], a[2] * b[2])

RECURSIVE FracSum(_)
FracSum(r) == IF Len(r) = 0 THEN Zero ELSE FracAdd(r[1], FracSum(Tail(r)))

\* an aggregate that averages the per-trade ratios: win_ratios.mean()
mean_win_ratio(a) ==
    LET t == FracSum([k \in 1..Len(a) |->
                        TrueDivide(a[k][2] - a[k][1], a[k][1])])
    IN  IF ~IsFinite(t) THEN NaN ELSE Frac(t[1], t[2] * Len(a))

\* line 64: (actions[:, 1] - actions[:, 0]).sum() / actions[:, 0].sum()
total_win_ratio(a) ==
    TrueDivide(SumSeq([k \in 1..Len(a) |-> Column(a, 1)[k] - Column(a, 0)[k]]),
               SumSeq(Column(a, 0)))

\* np.max / np.min of a non-empty array: nan if any element is nan
RECURSIVE NpMax(_)
NpMax(r) ==
    IF Len(r) = 1 THEN r[1]
    ELSE LET rest == NpMax(Tail(r))
         IN  IF IsNaN(r[1]) \/ IsNaN(rest) THEN NaN
             ELSE IF FracLess(r[1], rest) THEN rest ELSE r[1]

RECURSIVE NpMin(_)
NpMin(r) ==
    IF Len(r) = 1 THEN r[1]
    ELSE LET rest == NpMin(Tail(r))
         IN  IF IsNaN(r[1]) \/ IsNaN(rest) THEN NaN
             ELSE IF FracLess(rest, r[1]) THEN rest ELSE r[1]

\* a number of the returned tuple with its Python type
Num(t, v) == [t |-> t, v |-> v]

\* a best return without the floor at 0: np.max(win_ratios) as it is
BestOfUnfloored(x) == Num("float64", x)

\* Python's max(0, x) and min(0, x): the int 0 unless x > 0 (x < 0)
BestOf(x) == IF FracLess(Zero, x) THEN Num("float64", x) ELSE Num("int", Zero)
WorstOf(x) == IF FracLess(x, Zero) THEN Num("float64", x) ELSE Num("int", Zero)

\* np.sum(actions[:, 0] < actions[:, 1]) and np.sum(actions[:, 0] > actions[:, 1])
WinCount(a) == Cardinality({k \in 1..Len(a) : Column(a, 0)[k] < Column(a, 1)[k]})
LossCountWithTies(a) == Cardinality({k \in 1..Len(a) : Column(a, 0)[k] >= Column(a, 1)[k]})
LossCount(a) == Cardinality({k \in 1..Len(a) : Column(a, 0)[k] > Column(a, 1)[k]})

NoValue == <<>>

\* statistics that answer an empty trade list with zeros instead of raising
StatsZeroFilled(a) ==
    IF Len(a) = 0
    THEN [raised |-> "none",
          value  |-> [trade_count     |-> [t |-> "int", v |-> Zero],
                      total_win_ratio |-> [t |-> "float64", v |-> Zero],
                      best            |-> [t |-> "int", v |-> Zero],
                      worst           |-> [t |-> "int", v |-> Zero],
                      win_count       |-> [t |-> "int64", v |-> Zero],
                      loss_count      |-> [t |-> "int64", v |-> Zero]]]
    ELSE [raised |-> "none",
          value  |-> [trade_count     |-> [t |-> "int", v |-> <<Len(a), 1>>],
                      total_win_ratio |-> [t |-> "float64", v |-> total_win_ratio(a)],
                      best            |-> BestOf(NpMax(win_ratios(a))),
                      worst           |-> WorstOf(NpMin(win_ratios(a))),
                      win_count       |-> [t |-> "int64", v |-> <<WinCount(a), 1>>],
                      loss_count      |-> [t |-> "int64", v |-> <<LossCount(a), 1>>]]]

\* lines 61-64 and the numbers of the tuple of lines 76-79, from the list
\* mm_actions returned: np.array of an empty list is one-dimensional, so
\* actions[:, 1] raises IndexError
Stats(a) ==
    IF Len(a) = 0 THEN [raised |-> "IndexError", value |-> NoValue]
    ELSE [raised |-> "none",
          value  |-> [trade_count     |-> Num("int", <<Len(a), 1>>),
                      total_win_ratio |-> Num("float64", total_win_ratio(a)),
                      best            |-> BestOf(NpMax(win_ratios(a))),
                      worst           |-> WorstOf(NpMin(win_ratios(a))),
                      win_count       |-> Num("int64", <<WinCount(a), 1>>),
                      loss_count      |-> Num("int64", <<LossCount(a), 1>>)]]

\* the tuple of lines 76-79: the id, hist[0]'s name and date, the numbers
ReturnTuple(stock_id, hist, st) ==
    [stock_id        |-> stock_id,
     secShortName    |-> hist[1].secShortName,
     tradeDate       |-> hist[1].tradeDate,
     trade_count     |-> st.trade_count,
     total_win_ratio |-> st.total_win_ratio,
     best            |-> st.best,
     worst           |-> st.worst,
     win_count       |-> st.win_count,
     loss_count      |-> st.loss_count]

\* line 58: hist.sort(key=tradeDate), a stable sort
RECURSIVE SortByDate(_)
SortByDate(h) ==
    IF Len(h) <= 1 THEN h
    ELSE LET init == SortByDate(SubSeq(h, 1, Len(h) - 1))
             x    == h[Len(h)]
             keep == Cardinality({k \in 1..Len(init) : init[k].tradeDate <= x.tradeDate})
         IN  SubSeq(init, 1, keep) \o <<x>> \o SubSeq(init, keep + 1, Len(init))

\* the locals of a compute call that raised before it had them
NoLocals == [prices |-> <<>>, mm_prices |-> <<>>, mm |-> <<>>, actions |-> <<>>]

Raise(e) == [raised |-> e, value |-> NoValue, locals |-> NoLocals]

\* the whole of compute for one instrument: what it raised or returned, and
\* the locals it computed on the way
compute(s, window) ==
    IF Len(s.stock_id) = 0 THEN Raise("IndexError")
    ELSE IF s.stock_id[1] \notin {"0", "6"} THEN Raise("ValueError")
    ELSE IF ~s.resp.has_data THEN Raise("RuntimeError")
    ELSE LET hist == SortByDate(s.resp.data)
             ps   == [k \in 1..Len(hist) |-> hist[k].closePrice]
             mean == moving_mean(ps, window)
             tail == SliceFrom(ps, window)
             acts == mm_actions(tail, mean)
             loc  == [prices |-> ps, mm_prices |-> tail, mm |-> mean,
                      actions |-> acts.value]
         IN  IF acts.raised # "none"
             THEN [raised |-> acts.raised, value |-> NoValue, locals |-> loc]
             ELSE IF Stats(acts.value).raised # "none"
             THEN [raised |-> Stats(acts.value).raised, value |-> NoValue,
                   locals |-> loc]
             ELSE [raised |-> "none",
                   value  |-> ReturnTuple(s.stock_id, hist, Stats(acts.value).value),
                   locals |-> loc]

---------------------------------------------------------------------------
(* Inputs *)

RECURSIVE SeqsOfLen(_, _)
SeqsOfLen(S, n) ==
    IF n = 0 THEN {<<>>}
    ELSE {Append(q, x) : q \in SeqsOfLen(S, n - 1), x \in S}

SeqsUpTo(S, n) == UNION {SeqsOfLen(S, k) : k \in 0..n}

Reverse(q) == [k \in 1..Len(q) |-> q[Len(q) + 1 - k]]

\* the API's 'data' list for close prices ps (oldest first), as the API
\* delivers it: oldest first ("asc") or newest first ("desc")
History(ps, order) ==
    LET h == [k \in 1..Len(ps) |->
                 [tradeDate |-> k, closePrice |-> ps[k], secShortName |-> "N"]]
    IN  IF order = "asc" THEN h ELSE Reverse(h)

Answer(ps, order) == [has_data |-> TRUE, data |-> History(ps, order), retMsg |-> ""]
NoData == [has_data |-> FALSE, data |-> <<>>, retMsg |-> "no data"]

NoStock == [stock_id |-> <<>>, resp |-> NoData]
NoRet == [raised |-> "none", value |-> NoValue]

\* close prices of the histories compute is run on
Prices == 1..5
Orders == {"asc", "desc"}
\* stock ids: Shenzhen ("0..."), Shanghai ("6..."), neither, and the empty id
StockIds == {<<"0", "1">>, <<"6", "1">>, <<"3", "1">>, <<>>}

\* aligned inputs of mm_actions
ScanPrices == {9, 10, 12}
ScanMeans == {<<10, 1>>, <<21, 2>>}

\* buy and sell prices of the trade lists the statistics are run on
TradePrices == {0, 40, 50, 100, 110}

---------------------------------------------------------------------------
(* The functions applied to bounded inputs *)

MainIdle ==
    /\ ids = <<>>
    /\ j = 0
    /\ sheet = <<>>
    /\ log = <<>>
    /\ closed = FALSE
    /\ exc = "none"

\* mm_actions(mm_prices, mm) is called
CallMMActions ==
    /\ pc = "mm_actions"
    /\ LET r == mm_actions(mm_prices, mm)
       IN  /\ actions' = r.value
           /\ IF r.raised = "none"
              THEN pc' = "stats" /\ ret' = ret
              ELSE pc' = "raised" /\ ret' = [raised |-> r.raised, value |-> NoValue]
    /\ UNCHANGED <<stock, avg_window, prices, mm_prices, mm,
                   ids, j, sheet, log, closed, exc>>

\* the statistics of lines 61-79 are taken of `actions`
CallStats ==
    /\ pc = "stats"
    /\ ret' = Stats(actions)
    /\ pc' = IF Stats(actions).raised = "none" THEN "returned" ELSE "raised"
    /\ UNCHANGED <<stock, avg_window, prices, mm_prices, mm, actions,
                   ids, j, sheet, log, closed, exc>>

\* compute(stock, avg_window) is called
CallCompute ==
    /\ pc = "compute"
    /\ LET r == compute(stock, avg_window)
       IN  /\ prices' = r.locals.prices
           /\ mm_prices' = r.locals.mm_prices
           /\ mm' = r.locals.mm
           /\ actions' = r.locals.actions
           /\ ret' = [raised |-> r.raised, value |-> r.value]
           /\ pc' = IF r.raised = "none" THEN "returned" ELSE "raised"
    /\ UNCHANGED <<stock, avg_window, ids, j, sheet, log, closed, exc>>

\* mm_actions on aligned price and moving-mean sequences, then the statistics
InitMMActions ==
    /\ pc = "mm_actions"
    /\ mm_prices \in SeqsUpTo(ScanPrices, MaxLen)
    /\ mm \in SeqsUpTo(ScanMeans, MaxLen)
    /\ stock = NoStock /\ avg_window = 0 /\ prices = <<>>
    /\ actions = <<>> /\ ret = NoRet
    /\ MainIdle

NextMMActions == CallMMActions \/ CallStats

SpecMMActions == InitMMActions /\ [][NextMMActions]_vars

\* the statistics on trade lists
InitStats ==
    /\ pc = "stats"
    /\ actions \in SeqsUpTo(TradePrices \X TradePrices, MaxTrades)
    /\ stock = NoStock /\ avg_window = 0 /\ prices = <<>>
    /\ mm_prices = <<>> /\ mm = <<>> /\ ret = NoRet
    /\ MainIdle

NextStats == CallStats

SpecStats == InitStats /\ [][NextStats]_vars

\* compute on one instrument's answer from the API
InitCompute ==
    /\ pc = "compute"
    /\ \/ \E ps \in SeqsUpTo(Prices, MaxLen), o \in Orders, id \in {<<"0", "1">>, <<"6", "1">>} :
             stock = [stock_id |-> id, resp |-> Answer(ps, o)]
       \/ \E id \in StockIds, r \in {NoData, Answer(<<1, 2>>, "asc")} :
             stock = [stock_id |-> id, resp |-> r]
    /\ avg_window \in 1..MaxWindow
    /\ prices = <<>> /\ mm_prices = <<>> /\ mm = <<>>
    /\ actions = <<>> /\ ret = NoRet
    /\ MainIdle

NextCompute == CallCompute

SpecCompute == InitCompute /\ [][NextCompute]_vars

---------------------------------------------------------------------------
(* main (src/main.py lines 82-120) *)

Repeat(x, n) == [k \in 1..n |-> x]

\* the instruments a batch is drawn from: an id and the API's answer for it
StockLoss == [stock_id |-> <<"0", "1">>,
              resp |-> Answer(Repeat(10, AvgWindow) \o <<10, 12, 9>>, "desc")]
StockWin  == [stock_id |-> <<"6", "1">>,
              resp |-> Answer(Repeat(10, AvgWindow) \o <<10, 30, 11>>, "asc")]
StockFlat == [stock_id |-> <<"0", "2">>,
              resp |-> Answer(Repeat(5, AvgWindow) \o <<5, 5>>, "asc")]
StockZero == [stock_id |-> <<"6", "2">>,
              resp |-> Answer(Repeat(0, AvgWindow) \o <<0, 40, 1>>, "asc")]
StockNoData == [stock_id |-> <<"0", "3">>, resp |-> NoData]
StockBadId == [stock_id |-> <<"3", "1">>, resp |-> NoData]

Stocks == {StockLoss, StockWin, StockFlat, StockZero, StockNoData, StockBadId}

\* the types of the nine values of the tuple compute returns, in order
TupleTypes(v) ==
    <<"str", "str", "str", v.trade_count.t, v.total_win_ratio.t, v.best.t,
      v.worst.t, v.win_count.t, v.loss_count.t>>

\* the numbers among them (a string's place holds 0)
TupleNumbers(v) ==
    <<Zero, Zero, Zero, v.trade_count.v, v.total_win_ratio.v, v.best.v,
      v.worst.v, v.win_count.v, v.loss_count.v>>

\* lines 110-117: the worksheet call made for a value of type t
CellFormat(t) ==
    IF t = "str" THEN "string"
    ELSE IF t \in {"float", "float32", "float64"} THEN "percent"
    ELSE IF t \in {"int", "int32", "int64"} THEN "number"
    ELSE "AssertionError"

\* whether sheet.write_number refuses nan and inf: xlsxwriter raises
\* TypeError for them unless the workbook was opened with nan_inf_to_errors,
\* which main does not pass; a library that writes them is allowed for too
RefusesNonFinite == BOOLEAN

\* sheet.write_number(row, col, q): "written", or the exception raised
WriteNumber(q, refuse) ==
    IF IsFinite(q) \/ ~refuse THEN "written" ELSE "TypeError"

\* lines 110-117 for the i-th value of the tuple v: "written", or the
\* exception raised
WriteCell(v, i, refuse) ==
    LET f == CellFormat(TupleTypes(v)[i])
    IN  IF f = "AssertionError" THEN "AssertionError"
        ELSE IF f = "string" THEN "written"
        ELSE WriteNumber(TupleNumbers(v)[i], refuse)

\* the first cell (1-based) whose write raises, or 0 when all nine are written
FirstFailure(v, refuse) ==
    LET bad == {i \in 1..9 : WriteCell(v, i, refuse) # "written"}
    IN  IF bad = {} THEN 0 ELSE CHOOSE i \in bad : \A k \in bad : i <= k

\* the formats of the first n cells of the row written for v
RowCells(v, n) == [i \in 1..n |-> CellFormat(TupleTypes(v)[i])]

Entry(level, what, who, err) ==
    [level |-> level, what |-> what, who |-> who, err |-> err]

HeaderRow == Repeat("string", 9)

\* lines 95-99: the format, the worksheet and its header row
WriteHeader ==
    /\ pc = "start"
    /\ sheet' = (0 :> HeaderRow)
    /\ j' = 1
    /\ pc' = "loop"
    /\ UNCHANGED <<stock, avg_window, prices, mm_prices, mm, actions, ret,
                   ids, log, closed, exc>>

\* lines 102-106: compute raises for ids[j]; the exception is logged
InstrumentFails ==
    /\ pc = "loop"
    /\ j <= Len(ids)
    /\ LET r == compute(ids[j], AvgWindow)
       IN  /\ r.raised # "none"
           /\ log' = log \o <<Entry("info", "fetch", j, "none"),
                              Entry("error", "exception", j, r.raised)>>
    /\ j' = j + 1
    /\ UNCHANGED <<pc, stock, avg_window, prices, mm_prices, mm, actions, ret,
                   ids, sheet, closed, exc>>

\* lines 102-117: compute returns for ids[j] and every cell of row j is written
InstrumentWritten ==
    /\ pc = "loop"
    /\ j <= Len(ids)
    /\ LET r == compute(ids[j], AvgWindow)
       IN  /\ r.raised = "none"
           /\ \E refuse \in RefusesNonFinite : FirstFailure(r.value, refuse) = 0
           /\ sheet' = sheet @@ (j :> RowCells(r.value, 9))
    /\ log' = log \o <<Entry("info", "fetch", j, "none"),
                       Entry("info", "write", j, "none")>>
    /\ j' = j + 1
    /\ UNCHANGED <<pc, stock, avg_window, prices, mm_prices, mm, actions, ret,
                   ids, closed, exc>>

\* lines 102-117: compute returns for ids[j] and the write of cell f raises;
\* the raise is in the else clause of the try, so no except clause handles it
\* and it leaves the for loop
InstrumentWriteRaises ==
    /\ pc = "loop"
    /\ j <= Len(ids)
    /\ LET r == compute(ids[j], AvgWindow)
       IN  /\ r.raised = "none"
           /\ \E refuse \in RefusesNonFinite :
                 LET f == FirstFailure(r.value, refuse)
                 IN  /\ f # 0
                     /\ sheet' = IF f = 1 THEN sheet
                                 ELSE sheet @@ (j :> RowCells(r.value, f - 1))
                     /\ exc' = WriteCell(r.value, f, refuse)
    /\ log' = log \o <<Entry("info", "fetch", j, "none"),
                       Entry("info", "write", j, "none")>>
    /\ pc' = "finally"
    /\ UNCHANGED <<stock, avg_window, prices, mm_prices, mm, actions, ret,
                   ids, j, closed>>

\* the for loop of line 101 is exhausted
LoopEnds ==
    /\ pc = "loop"
    /\ j > Len(ids)
    /\ pc' = "finally"
    /\ UNCHANGED <<stock, avg_window, prices, mm_prices, mm, actions, ret,
                   ids, j, sheet, log, closed, exc>>

\* lines 118-120: the workbook is closed, and the exception (if any) goes on
Finally ==
    /\ pc = "finally"
    /\ closed' = TRUE
    /\ log' = Append(log, Entry("info", "close", 0, "none"))
    /\ pc' = IF exc = "none" THEN "exit" ELSE "crashed"
    /\ UNCHANGED <<stock, avg_window, prices, mm_prices, mm, actions, ret,
                   ids, j, sheet, exc>>

\* after line 93: the ids are split, the workbook is open
Init ==
    /\ pc = "start"
    /\ ids \in SeqsUpTo(Stocks, MaxIds) \ {<<>>}
    /\ j = 0
    /\ sheet = <<>>
    /\ log = <<>>
    /\ closed = FALSE
    /\ exc = "none"
    /\ stock = NoStock /\ avg_window = AvgWindow /\ prices = <<>>
    /\ mm_prices = <<>> /\ mm = <<>> /\ actions = <<>> /\ ret = NoRet

Next ==
    \/ WriteHeader
    \/ InstrumentFails
    \/ InstrumentWritten
    \/ InstrumentWriteRaises
    \/ LoopEnds
    \/ Finally

Spec == Init /\ [][Next]_vars

---------------------------------------------------------------------------
(* The crossover rule as a two-state machine, position FLAT or LONG *)

Flat == [position |-> "FLAT", entry_price |-> 0, trades |-> <<>>]

\* p >= m and p < m for an integer p and a finite fraction m, by
\* cross-multiplication
AtOrAbove(p, m) == p * m[2] >= m[1]
Below(p, m) == p * m[2] < m[1]

MachineStep(st, p, m) ==
    IF st.position = "FLAT" /\ AtOrAbove(p, m)
    THEN [position |-> "LONG", entry_price |-> p, trades |-> st.trades]
    ELSE IF st.position = "LONG" /\ Below(p, m)
    THEN [position |-> "FLAT", entry_price |-> 0,
          trades |-> Append(st.trades, <<st.entry_price, p>>)]
    ELSE st

\* the machine's state after the first k pairs
RECURSIVE MachineAfter(_, _, _)
MachineAfter(ps, ms, k) ==
    IF k = 0 THEN Flat ELSE MachineStep(MachineAfter(ps, ms, k - 1), ps[k], ms[k])

\* the pairs at which the machine closes a position
ExitEvents(ps, ms) ==
    {k \in 1..Len(ps) : /\ MachineAfter(ps, ms, k - 1).position = "LONG"
                        /\ Below(ps[k], ms[k])}

\* the pairs with price = moving mean
Ties(ps, ms) == {k \in 1..Len(ps) : ps[k] * ms[k][2] = ms[k][1]}

Prefix(q, k) == SubSeq(q, 1, k)

MMActionsReturned == pc \in {"stats", "returned", "raised"} /\ Len(mm_prices) = Len(mm)

\* C1: for equal-length sequences mm_actions returns exactly the trades the
\* two-state machine emits, in order: FLAT and price >= ma goes LONG at that
\* price, LONG and price < ma emits (entry_price, price) and goes FLAT.  A
\* pair with price = ma opens a position when FLAT and closes none (the trades
\* of the input up to and including a tie are those of the input before it), a
\* position open at the end emits nothing, and the number of trades is the
\* number of exit events.
C1_MMActionsIsCrossoverMachine ==
    MMActionsReturned =>
        /\ actions = MachineAfter(mm_prices, mm, Len(mm)).trades
        /\ Len(actions) = Cardinality(ExitEvents(mm_prices, mm))
        /\ \A k \in Ties(mm_prices, mm) :
              /\ mm_actions(Prefix(mm_prices, k), Prefix(mm, k)).value
                   = mm_actions(Prefix(mm_prices, k - 1), Prefix(mm, k - 1)).value
              /\ MachineAfter(mm_prices, mm, k).position = "LONG"
        /\ \A k \in 1..Len(actions) :
              \E e, x \in 1..Len(mm) :
                 /\ e < x
                 /\ actions[k] = <<mm_prices[e], mm_prices[x]>>
                 /\ AtOrAbove(mm_prices[e], mm[e])
                 /\ Below(mm_prices[x], mm[x])

\* a tie opens a position, a later price below the mean closes it, a second
\* tie opens a position that is still open when the input ends
C1_Witness ==
    /\ pc = "stats"
    /\ mm_prices = <<10, 9, 10>>
    /\ mm = <<<<10, 1>>, <<10, 1>>, <<10, 1>>>>
    /\ actions = <<<<10, 9>>>>
    /\ MachineAfter(mm_prices, mm, 3).position = "LONG"

Scenario1 ==
    /\ pc = "returned"
    /\ mm_prices = <<10, 10, 10, 12, 9>>
    /\ mm = <<<<10, 1>>, <<10, 1>>, <<10, 1>>, <<10, 1>>, <<10, 1>>>>

\* C2 as stated: prices [10, 10, 10, 12, 9] against the moving average
\* [10, 10, 10, 10, 10] give the one trade (12, 9), bought at index 3 with no
\* position before it, an aggregate return ratio of -1/4, one loss, no win.
C2_Scenario1AsStated ==
    Scenario1 =>
        /\ actions = <<<<12, 9>>>>
        /\ ret.value.total_win_ratio.v = <<-1, 4>>
        /\ ret.value.loss_count.v = <<1, 1>>
        /\ ret.value.win_count.v = <<0, 1>>

\* C2 amended: the same inputs give the one trade (10, 9): the position is
\* opened at index 0 (10 >= 10) and is still open at index 3, and it is closed
\* at index 4 (9 < 10); the aggregate return ratio is (9 - 10)/10 = -1/10,
\* with one loss and no win.
C2_Scenario1 ==
    Scenario1 =>
        /\ actions = <<<<10, 9>>>>
        /\ MachineAfter(mm_prices, mm, 1).position = "LONG"
        /\ MachineAfter(mm_prices, mm, 4) = MachineAfter(mm_prices, mm, 1)
        /\ ret.value.trade_count.v = <<1, 1>>
        /\ ret.value.total_win_ratio.v = <<-1, 10>>
        /\ ret.value.loss_count.v = <<1, 1>>
        /\ ret.value.win_count.v = <<0, 1>>

C2_Witness == Scenario1 /\ ret.raised = "none" /\ Len(actions) = 1

---------------------------------------------------------------------------
(* The moving mean inside compute *)

\* q[lo] + ... + q[hi]
RECURSIVE SumRange(_, _, _)
SumRange(q, lo, hi) == IF lo > hi THEN 0 ELSE q[hi] + SumRange(q, lo, hi - 1)

\* the fraction m is the arithmetic mean of the w prices q[lo .. lo+w-1]
IsMeanOfWindow(m, q, lo, w) == m[2] > 0 /\ m[1] * w = SumRange(q, lo, lo + w - 1) * m[2]

\* compute got as far as line 61, so its locals prices, mm and the slice
\* prices[avg_window:] are in the state
ComputeScanned ==
    /\ pc \in {"returned", "raised"}
    /\ Len(stock.stock_id) > 0
    /\ stock.stock_id[1] \in {"0", "6"}
    /\ stock.resp.has_data

\* C3: for 1 <= window_size <= len(prices) the moving mean has
\* len(prices) - window_size values, the j-th (0-based) being the mean of
\* prices[i-window_size+1 .. i] for i = j + window_size, and compute pairs it
\* with prices[i] in its call mm_actions(prices[avg_window:], mm).  (1-based
\* below: mm[k] is the mean of prices[k+1 .. k+w] and is paired with
\* prices[k+w].)
C3_MovingMeanLengthAndValues ==
    (ComputeScanned /\ avg_window >= 1 /\ avg_window <= Len(prices)) =>
        /\ Len(mm) = Len(prices) - avg_window
        /\ Len(mm_prices) = Len(mm)
        /\ \A k \in 1..Len(mm) :
              /\ IsMeanOfWindow(mm[k], prices, k + 1, avg_window)
              /\ mm_prices[k] = prices[k + avg_window]

\* a window of 2 over 5 prices: three means, one a half-integer
C3_Witness ==
    /\ ComputeScanned
    /\ avg_window = 2
    /\ prices = <<1, 2, 4, 5, 5>>
    /\ mm = <<<<3, 1>>, <<9, 2>>, <<5, 1>>>>
    /\ mm_prices = <<4, 5, 5>>

\* the number of full windows of w consecutive prices among n
FullWindows(n, w) == IF w <= n THEN n - w + 1 ELSE 0

Scenario3 == ComputeScanned /\ prices = <<1, 2, 3, 4, 5>> /\ avg_window = 3

\* C4 as stated: the moving average is the mean of every full window of
\* window_size consecutive prices, beginning with the first window
\* prices[0 .. window_size-1]; for [1,2,3,4,5] and window_size 3 it is
\* [2, 3, 4].
C4_EveryFullWindowAsStated ==
    /\ (ComputeScanned /\ avg_window >= 1 /\ avg_window <= Len(prices)) =>
          /\ Len(mm) = FullWindows(Len(prices), avg_window)
          /\ \A k \in 1..Len(mm) : IsMeanOfWindow(mm[k], prices, k, avg_window)
    /\ Scenario3 => mm = <<<<2, 1>>, <<3, 1>>, <<4, 1>>>>

\* C4 amended: the moving average is the mean of every full window of
\* window_size consecutive prices except the first one, prices[0 ..
\* window_size-1]: it begins with the window prices[1 .. window_size]; for
\* [1,2,3,4,5] and window_size 3 it is [3, 4], the means of [2,3,4] and
\* [3,4,5].
C4_EveryFullWindowButTheFirst ==
    /\ (ComputeScanned /\ avg_window >= 1 /\ avg_window <= Len(prices)) =>
          /\ Len(mm) = FullWindows(Len(prices), avg_window) - 1
          /\ \A w \in 2..FullWindows(Len(prices), avg_window) :
                IsMeanOfWindow(mm[w - 1], prices, w, avg_window)
    /\ Scenario3 => mm = <<<<3, 1>>, <<4, 1>>>>

C4_Witness == Scenario3 /\ Len(mm) = 2 /\ mm[1] = <<3, 1>>

---------------------------------------------------------------------------
(* The statistics compute returns *)

StatsDone == pc \in {"returned", "raised"}

EntryOf(t) == t[1]
ExitOf(t) == t[2]

\* sums over the trades, last trade first
RECURSIVE EntryTotal(_, _)
EntryTotal(a, n) == IF n = 0 THEN 0 ELSE EntryOf(a[n]) + EntryTotal(a, n - 1)

RECURSIVE GainTotal(_, _)
GainTotal(a, n) ==
    IF n = 0 THEN 0 ELSE (ExitOf(a[n]) - EntryOf(a[n])) + GainTotal(a, n - 1)

\* C5: division by an entry price of zero is a defined error: for every
\* trade list in which some trade has entry price 0, or in which the entry
\* prices sum to 0, compute fails with an error and returns no statistics
\* tuple.
C5_ZeroEntryPriceRaises ==
    (/\ StatsDone
     /\ Len(actions) > 0
     /\ \/ \E k \in 1..Len(actions) : EntryOf(actions[k]) = 0
        \/ EntryTotal(actions, Len(actions)) = 0)
    => (pc = "raised" /\ ret.raised # "none")

\* C8: for a non-empty trade list whose entry prices do not sum to 0 the
\* aggregate return ratio is sum(exit - entry) / sum(entry), the
\* capital-weighted total; for the trades (100, 110) and (50, 40) it is
\* 0/150 = 0, and not -1/20, the mean of the ratios 1/10 and -1/5.
C8_AggregateIsCapitalWeighted ==
    /\ (pc = "returned" /\ EntryTotal(actions, Len(actions)) # 0) =>
          LET q == ret.value.total_win_ratio.v
          IN  /\ q[2] > 0
              /\ q[1] * EntryTotal(actions, Len(actions))
                   = GainTotal(actions, Len(actions)) * q[2]
    /\ (pc = "returned" /\ actions = <<<<100, 110>>, <<50, 40>>>>) =>
          /\ ret.value.total_win_ratio.v = <<0, 1>>
          /\ ret.value.total_win_ratio.v # <<-1, 20>>

C8_Witness ==
    /\ pc = "returned"
    /\ actions = <<<<100, 110>>, <<50, 40>>>>
    /\ ret.value.total_win_ratio.v = Zero
    /\ ret.value.trade_count.v = <<2, 1>>

\* the fraction q is at least (at most) the return ratio (exit - entry)/entry
\* of the trade t, entry # 0: both sides multiplied by q's denominator and by
\* entry squared
AtLeastRatio(q, t) ==
    q[1] * EntryOf(t) * EntryOf(t) >= (ExitOf(t) - EntryOf(t)) * EntryOf(t) * q[2]
AtMostRatio(q, t) ==
    q[1] * EntryOf(t) * EntryOf(t) <= (ExitOf(t) - EntryOf(t)) * EntryOf(t) * q[2]
IsRatio(q, t) == AtLeastRatio(q, t) /\ AtMostRatio(q, t)

NoZeroEntry == \A k \in 1..Len(actions) : EntryOf(actions[k]) # 0
AllLosing == \A k \in 1..Len(actions) : ExitOf(actions[k]) < EntryOf(actions[k])
AllWinning == \A k \in 1..Len(actions) : ExitOf(actions[k]) > EntryOf(actions[k])

\* C9: for a non-empty trade list with non-zero entry prices the best return
\* is max(0, max of the per-trade ratios) and the worst is min(0, min of the
\* per-trade ratios): best is never negative, worst never positive, an
\* all-losing series reports best = 0 and an all-winning one worst = 0.
C9_BestAndWorstClampedAtZero ==
    (pc = "returned" /\ NoZeroEntry) =>
        LET best  == ret.value.best.v
            worst == ret.value.worst.v
        IN  /\ best[2] > 0 /\ best[1] >= 0
            /\ \A k \in 1..Len(actions) : AtLeastRatio(best, actions[k])
            /\ best = Zero \/ \E k \in 1..Len(actions) : IsRatio(best, actions[k])
            /\ worst[2] > 0 /\ worst[1] <= 0
            /\ \A k \in 1..Len(actions) : AtMostRatio(worst, actions[k])
            /\ worst = Zero \/ \E k \in 1..Len(actions) : IsRatio(worst, actions[k])
            /\ AllLosing => best = Zero
            /\ AllWinning => worst = Zero

\* an all-losing series of two trades: best is 0, worst the larger loss
C9_Witness ==
    /\ pc = "returned"
    /\ actions = <<<<50, 40>>, <<110, 100>>>>
    /\ ret.value.best.v = Zero
    /\ ret.value.worst.v = <<-1, 5>>

\* the number of wins, losses or break-even trades among the first n trades
RECURSIVE CountTrades(_, _, _)
CountTrades(a, n, kind) ==
    IF n = 0 THEN 0
    ELSE CountTrades(a, n - 1, kind)
         + (IF \/ kind = "win" /\ ExitOf(a[n]) > EntryOf(a[n])
               \/ kind = "loss" /\ ExitOf(a[n]) < EntryOf(a[n])
               \/ kind = "even" /\ ExitOf(a[n]) = EntryOf(a[n])
            THEN 1 ELSE 0)

\* C10: for a non-empty trade list the winning-trade count is the number of
\* trades with exit > entry and the losing-trade count the number with
\* exit < entry; a trade with exit = entry is neither, so win_count +
\* loss_count <= trade_count, with equality exactly when no trade has
\* exit = entry.
C10_WinAndLossCounts ==
    pc = "returned" =>
        LET n      == Len(actions)
            wins   == ret.value.win_count.v
            losses == ret.value.loss_count.v
            count  == ret.value.trade_count.v
        IN  /\ n > 0
            /\ count = <<n, 1>>
            /\ wins = <<CountTrades(actions, n, "win"), 1>>
            /\ losses = <<CountTrades(actions, n, "loss"), 1>>
            /\ wins[1] + losses[1] <= count[1]
            /\ (wins[1] + losses[1] = count[1])
                  <=> (CountTrades(actions, n, "even") = 0)

\* a win and a trade that breaks even
C10_Witness ==
    /\ pc = "returned"
    /\ actions = <<<<40, 50>>, <<50, 50>>>>
    /\ ret.value.win_count.v = <<1, 1>>
    /\ ret.value.loss_count.v = <<0, 1>>
    /\ ret.value.trade_count.v = <<2, 1>>

---------------------------------------------------------------------------
(* The batch *)

\* compute scanned the history of instrument s and no trade was closed
NoClosedTrade(s) ==
    /\ Len(s.stock_id) > 0
    /\ s.stock_id[1] \in {"0", "6"}
    /\ s.resp.has_data
    /\ compute(s, AvgWindow).locals.actions = <<>>

\* the instruments main is done with: all before j, and the one at j once the
\* loop is left
Processed == {i \in 1..Len(ids) : i < j \/ (i = j /\ pc \in {"finally", "exit", "crashed"})}

ErrorLogged(i) == \E k \in 1..Len(log) : log[k].level = "error" /\ log[k].who = i
FetchLogged(i) == \E k \in 1..Len(log) : log[k].what = "fetch" /\ log[k].who = i

\* C6: when no trade is ever closed for an instrument (as for prices [5, 5]
\* against the moving average [5, 5]: bought at index 0, never sold) compute
\* raises instead of returning statistics: no tuple with trade_count 0 is
\* returned, the instrument gets a logged error and no row, and the loop goes
\* on to the next instrument.
C6_NoClosedTradeRaises ==
    /\ \A i \in 1..Len(ids) :
          /\ NoClosedTrade(ids[i]) => compute(ids[i], AvgWindow).raised # "none"
          /\ compute(ids[i], AvgWindow).raised = "none" =>
                compute(ids[i], AvgWindow).value.trade_count.v[1] >= 1
    /\ \A i \in Processed :
          NoClosedTrade(ids[i]) =>
             /\ ErrorLogged(i)
             /\ i \notin DOMAIN sheet
             /\ j > i
             /\ exc = "none" \/ (j <= Len(ids) /\ ~NoClosedTrade(ids[j]))

\* the flat instrument fails first and the next one still gets its row
C6_Witness ==
    /\ pc = "exit"
    /\ ids = <<StockFlat, StockLoss>>
    /\ compute(StockFlat, AvgWindow).locals.mm_prices = <<5, 5>>
    /\ compute(StockFlat, AvgWindow).locals.mm = <<<<5, 1>>, <<5, 1>>>>
    /\ DOMAIN sheet = {0, 2}
    /\ ErrorLogged(1)

\* C7: whatever instruments compute fails for, each failure is scoped to its
\* instrument: every id is processed, in input order, each failed instrument
\* is logged and gets no row, each successful one gets exactly one (whole)
\* row, the workbook is closed at the end, and the batch never crashes.
C7_FailureScopedToInstrument ==
    /\ pc # "crashed"
    /\ exc = "none"
    /\ pc = "exit" =>
          /\ closed
          /\ j = Len(ids) + 1
          /\ \A i \in 1..Len(ids) :
                /\ FetchLogged(i)
                /\ compute(ids[i], AvgWindow).raised # "none" =>
                      (ErrorLogged(i) /\ i \notin DOMAIN sheet)
                /\ compute(ids[i], AvgWindow).raised = "none" =>
                      (~ErrorLogged(i) /\ i \in DOMAIN sheet /\ Len(sheet[i]) = 9)
          /\ \A k, l \in 1..Len(log) :
                (k < l /\ log[k].what = "fetch" /\ log[l].what = "fetch")
                   => log[k].who < log[l].who

====
